---- MODULE Spec2Model ----
(***************************************************************************)
(* useSessionStorage (packages/usehooks-ts/src/useSessionStorage).         *)
(*                                                                         *)
(* Several instances of the hook live in one window.  Each holds a React   *)
(* state cell (storedValue), is bound to a key, and reads and writes       *)
(* window.sessionStorage.  A write dispatches the custom 'session-storage' *)
(* event, whose listeners run synchronously inside dispatchEvent; other    *)
(* documents sharing the storage area change it behind the window's back   *)
(* and the browser then queues a native 'storage' event.                   *)
(***************************************************************************)
EXTENDS Integers, Sequences, FiniteSets, TLC

\* ------------------------------------------------------------------ bounds
MaxNum == 1           \* numbers 0..MaxNum are the numeric values of T
MaxEvents == 1        \* native 'storage' events queued and not yet delivered

\* The hook instances in the window.
Insts == {1, 2}
\* The sets of keys an application's components pass to the hook.
KeyPools == {{"a", "b"}}

\* --------------------------------------------------------------- JS values
Val(t, n) == [t |-> t, n |-> n]
Num(n) == Val("number", n)
Undefined == Val("undefined", 0)
Obj(n) == Val("object", n)          \* { a: n }
EmptyObj == Val("emptyobject", 0)   \* {}
Arr(n) == Val("array", n)           \* [n]
MapOf(n) == Val("Map", n)           \* new Map([['a', n]])
SetOf(n) == Val("Set", n)           \* new Set([n])
Cyclic == Val("cyclic", 0)          \* o with o.self = o

\* A call either returns v or throws.
Return(v) == [threw |-> FALSE, v |-> v]
Throw == [threw |-> TRUE, v |-> Undefined]
\* A call that yields text: a string, the value undefined, or an exception.
Text(s) == [threw |-> FALSE, undef |-> FALSE, s |-> s]
NoText == [threw |-> FALSE, undef |-> TRUE, s |-> ""]
ThrowText == [threw |-> TRUE, undef |-> FALSE, s |-> ""]

\* The texts of the JSON values of the model (tabulated once).
NumText == [n \in 0..MaxNum |-> ToString(n)]
ObjText == [n \in 0..MaxNum |-> "{\"a\":" \o ToString(n) \o "}"]
ArrText == [n \in 0..MaxNum |-> "[" \o ToString(n) \o "]"]

\* JSON.stringify: undefined for undefined, a TypeError on a cyclic
\* structure, "{}" for a Map or a Set (they have no enumerable properties).
JSONstringify(value) ==
  CASE value.t = "number" -> Text(NumText[value.n])
    [] value.t = "undefined" -> NoText
    [] value.t = "object" -> Text(ObjText[value.n])
    [] value.t = "emptyobject" -> Text("{}")
    [] value.t = "array" -> Text(ArrText[value.n])
    [] value.t = "Map" -> Text("{}")
    [] value.t = "Set" -> Text("{}")
    [] value.t = "cyclic" -> ThrowText

\* JSON.parse: the value a JSON text denotes, a SyntaxError on anything that
\* is not JSON ("undefined" and "{bad" included).
JsonTexts ==
  {NumText[n] : n \in 0..MaxNum} \cup {ObjText[n] : n \in 0..MaxNum}
    \cup {ArrText[n] : n \in 0..MaxNum} \cup {"{}"}
ParseTable ==
  [text \in JsonTexts |->
     CASE \E n \in 0..MaxNum : text = NumText[n] ->
            Num(CHOOSE n \in 0..MaxNum : text = NumText[n])
       [] \E n \in 0..MaxNum : text = ObjText[n] ->
            Obj(CHOOSE n \in 0..MaxNum : text = ObjText[n])
       [] \E n \in 0..MaxNum : text = ArrText[n] ->
            Arr(CHOOSE n \in 0..MaxNum : text = ArrText[n])
       [] text = "{}" -> EmptyObj]
JSONparse(text) ==
  IF text \in JsonTexts THEN Return(ParseTable[text]) ELSE Throw

ObjectFromEntries(value) == Obj(value.n)
ArrayFrom(value) == Arr(value.n)

\* The custom codec an instance may be given in options:
\*   serializer:   v => v === undefined ? '' : v.toFixed(0)
\*   deserializer: s => { if (s === '') return undefined
\*                        if (!/^\d+$/.test(s)) throw new Error(); return Number(s) }
CustomSerializer(value) ==
  CASE value.t = "undefined" -> Text("")
    [] value.t = "number" -> Text(NumText[value.n])
    [] OTHER -> ThrowText

CustomDeserializer(text) ==
  IF text = "" THEN Return(Undefined)
  ELSE IF \E n \in 0..MaxNum : text = NumText[n]
    THEN Return(Num(CHOOSE n \in 0..MaxNum : text = NumText[n]))
    ELSE Throw

\* The updater functions a caller may pass to setValue:
\*   inc:    n => (typeof n === 'number' ? Math.min(n + 1, MaxNum) : MaxNum)
\*   toggle: v => (v === undefined ? MaxNum : undefined)
\*   throws: () => { throw new Error() }
Updaters == {"inc", "toggle", "throws"}
ApplyUpdater(f, prev) ==
  CASE f = "inc" ->
         Return(IF prev.t = "number" /\ prev.n < MaxNum THEN Num(prev.n + 1)
                ELSE Num(MaxNum))
    [] f = "toggle" ->
         Return(IF prev.t = "undefined" THEN Num(MaxNum) ELSE Undefined)
    [] f = "throws" -> Throw

Literal(v) == [fn |-> FALSE, v |-> v, f |-> "none"]
Updater(f) == [fn |-> TRUE, v |-> Undefined, f |-> f]
WriteArgs ==
  {Literal(v) : v \in {Num(MaxNum), Undefined, MapOf(1), Cyclic}}
    \cup {Updater(f) : f \in Updaters}

\* The writes on which the storage area is found full.
QuotaArgs == {Literal(Num(MaxNum))}

\* What another document writes into the storage area, and where.
ExternalTexts == {"{bad"}
ExternalKeys == {"a"}

\* ------------------------------------------------------------------- state
VARIABLES
  IS_SERVER,      \* typeof window === 'undefined', fixed at module load
  storeMode,      \* "ok", or "denied": window.sessionStorage throws
  keys,           \* the keys the application's components pass to the hook
  store,          \* sessionStorage: a function from the present keys to text
  events,         \* native 'storage' events queued by the browser
  options,        \* per instance: "default" or "custom" codec
  initialValue,   \* per instance: a literal or a producer
  key,            \* per instance: the key argument of the latest render
  storedValue,    \* per instance: the React state cell
  pc,             \* per instance: "rendered", "mounted" or "rekeyed"
  last            \* the latest operation and how it ended

vars == <<IS_SERVER, storeMode, keys, store, events, options, initialValue,
          key, storedValue, pc, last>>

NoStore == [k \in {} |-> ""]

\* The initialValue argument: a literal, or a producer () => T.
LiteralInitial(v) == [fn |-> FALSE, v |-> v]
ProducerInitial == [fn |-> TRUE, v |-> Undefined]
\* The producer the application passes is () => MaxNum.
ProducerValue == Num(MaxNum)
\* The hooks of the application: the first is given the literal 0 and the
\* default codec, the others a producer and either codec.
Configs ==
  {[initialValue |-> [i \in Insts |-> IF i = 1 THEN LiteralInitial(Num(0))
                                      ELSE ProducerInitial],
    options |-> [i \in Insts |-> IF i = 1 THEN "default" ELSE o]] :
     o \in {"default", "custom"}}

\* initialValue instanceof Function ? initialValue() : initialValue
InitialValueToUse(i) ==
  IF initialValue[i].fn THEN ProducerValue ELSE initialValue[i].v

\* Listeners are attached by the effects of the first commit.
Listening(i) == pc[i] \in {"mounted", "rekeyed"}

\* ----------------------------------------------------------- sessionStorage
\* window.sessionStorage.getItem(key): the text, or null when the key is
\* absent; the access throws when the storage is denied.
getItem(st, k) ==
  IF storeMode = "denied" THEN [threw |-> TRUE, null |-> FALSE, s |-> ""]
  ELSE IF k \in DOMAIN st THEN [threw |-> FALSE, null |-> FALSE, s |-> st[k]]
  ELSE [threw |-> FALSE, null |-> TRUE, s |-> ""]

\* window.sessionStorage.setItem(key, text): a ReferenceError without a
\* window, a SecurityError when denied, a QuotaExceededError when full;
\* an undefined argument is stored as the text "undefined".
\* (variant: without a window the storage step is skipped silently)
setItemSkippedOnServer(st, k, text, quota) ==
  IF IS_SERVER THEN [threw |-> FALSE, store |-> st]
  ELSE IF storeMode = "denied" \/ quota THEN [threw |-> TRUE, store |-> st]
  ELSE [threw |-> FALSE,
        store |-> [x \in DOMAIN st \cup {k} |->
                     IF x = k THEN (IF text.undef THEN "undefined" ELSE text.s)
                     ELSE st[x]]]

setItem(st, k, text, quota) ==
  IF IS_SERVER \/ storeMode = "denied" \/ quota
    THEN [threw |-> TRUE, store |-> st]
    ELSE [threw |-> FALSE,
          store |-> [x \in DOMAIN st \cup {k} |->
                       IF x = k THEN (IF text.undef THEN "undefined" ELSE text.s)
                       ELSE st[x]]]

\* ------------------------------------------------------------------- codec
serializer(i, value) ==
  IF options[i] = "custom" THEN CustomSerializer(value)
  ELSE IF value.t = "Map" THEN JSONstringify(ObjectFromEntries(value))
  ELSE IF value.t = "Set" THEN JSONstringify(ArrayFrom(value))
  ELSE JSONstringify(value)

\* (variant: the text "undefined" is recognised before options.deserializer)
deserializerUndefinedFirst(i, text) ==
  IF text = "undefined" THEN Return(Undefined)
  ELSE IF options[i] = "custom" THEN CustomDeserializer(text)
  ELSE LET defaultValue == InitialValueToUse(i)
           parsed == JSONparse(text)
       IN IF parsed.threw THEN Return(defaultValue) ELSE parsed

\* (variant: a parse failure yields undefined instead of the initial value)
deserializerParseUndefined(i, text) ==
  IF options[i] = "custom" THEN CustomDeserializer(text)
  ELSE IF text = "undefined" THEN Return(Undefined)
  ELSE LET parsed == JSONparse(text)
       IN IF parsed.threw THEN Return(Undefined) ELSE parsed

\* (variant: the text "undefined" is handed to JSON.parse like any other)
deserializerNoUndefined(i, text) ==
  IF options[i] = "custom" THEN CustomDeserializer(text)
  ELSE LET defaultValue == InitialValueToUse(i)
           parsed == JSONparse(text)
       IN IF parsed.threw THEN Return(defaultValue) ELSE parsed

deserializer(i, text) ==
  IF options[i] = "custom" THEN CustomDeserializer(text)
  ELSE IF text = "undefined" THEN Return(Undefined)
  ELSE LET defaultValue == InitialValueToUse(i)
           parsed == JSONparse(text)
       IN IF parsed.threw THEN Return(defaultValue) ELSE parsed

\* ---------------------------------------------------------------- readValue
\* (variant: only a missing entry, raw === null, yields the initial value)
readValueNullOnly(st, i) ==
  LET initialValueToUse == InitialValueToUse(i) IN
  IF IS_SERVER THEN Return(initialValueToUse)
  ELSE LET raw == getItem(st, key[i]) IN
       IF raw.threw THEN Return(initialValueToUse)
       ELSE IF raw.null THEN Return(initialValueToUse)
       ELSE LET value == deserializer(i, raw.s) IN
            IF value.threw THEN Return(initialValueToUse) ELSE value

\* (variant: no try/catch around the read, an exception leaves readValue)
readValueNoCatch(st, i) ==
  LET initialValueToUse == InitialValueToUse(i) IN
  IF IS_SERVER THEN Return(initialValueToUse)
  ELSE LET raw == getItem(st, key[i]) IN
       IF raw.threw THEN Throw
       ELSE IF raw.null \/ raw.s = "" THEN Return(initialValueToUse)
       ELSE deserializer(i, raw.s)

readValue(st, i) ==
  LET initialValueToUse == InitialValueToUse(i) IN
  IF IS_SERVER THEN Return(initialValueToUse)
  ELSE LET raw == getItem(st, key[i]) IN
       IF raw.threw THEN Return(initialValueToUse)
       ELSE IF raw.null \/ raw.s = "" THEN Return(initialValueToUse)
       ELSE LET value == deserializer(i, raw.s) IN
            IF value.threw THEN Return(initialValueToUse) ELSE value

\* ------------------------------------------------------ handleStorageChange
StorageEvent(k) == [isNull |-> FALSE, key |-> k]
NullKeyEvent == [isNull |-> TRUE, key |-> ""]

\* (variant: the event key is compared with null, not tested for truthiness)
handleStorageChangeNullCheck(st, sv, event, j) ==
  IF ~event.isNull /\ event.key # key[j]
    THEN sv[j]
    ELSE readValue(st, j).v

\* The state cell of instance j after its handler has seen the event.
handleStorageChange(st, sv, event, j) ==
  IF (~event.isNull /\ event.key # "") /\ event.key # key[j]
    THEN sv[j]
    ELSE readValue(st, j).v

\* window.dispatchEvent: every attached listener runs before it returns.
dispatchEvent(st, sv, event) ==
  [j \in Insts |-> IF Listening(j) THEN handleStorageChange(st, sv, event, j)
                   ELSE sv[j]]

\* ----------------------------------------------------------------- setValue
\* The outcome of setValue(value) on instance i: whether the try block ran
\* to its end, whether an exception left the function, the storage and the
\* state cells afterwards, whether the custom event was dispatched.
\* (variant: setStoredValue runs before the storage step)
setValueStateFirst(i, value, quota) ==
  LET prev == readValue(store, i)
      newValue == IF value.fn
                    THEN (IF prev.threw THEN Throw ELSE ApplyUpdater(value.f, prev.v))
                    ELSE Return(value.v)
      text == IF newValue.threw THEN ThrowText ELSE serializer(i, newValue.v)
      set == IF text.threw THEN [threw |-> TRUE, store |-> store]
             ELSE setItem(store, key[i], text, quota)
      saved == IF newValue.threw THEN storedValue
               ELSE [storedValue EXCEPT ![i] = newValue.v]
  IN IF set.threw
       THEN [ok |-> FALSE, threw |-> FALSE, newValue |-> newValue.v,
             store |-> store, storedValue |-> saved, published |-> FALSE]
       ELSE [ok |-> TRUE, threw |-> FALSE, newValue |-> newValue.v,
             store |-> set.store,
             storedValue |-> dispatchEvent(set.store, saved, StorageEvent(key[i])),
             published |-> TRUE]

\* (variant: no try/catch, an exception leaves setValue)
setValueNoCatch(i, value, quota) ==
  LET prev == readValue(store, i)
      newValue == IF value.fn
                    THEN (IF prev.threw THEN Throw ELSE ApplyUpdater(value.f, prev.v))
                    ELSE Return(value.v)
      text == IF newValue.threw THEN ThrowText ELSE serializer(i, newValue.v)
      set == IF text.threw THEN [threw |-> TRUE, store |-> store]
             ELSE setItem(store, key[i], text, quota)
  IN IF set.threw
       THEN [ok |-> FALSE, threw |-> TRUE, newValue |-> newValue.v,
             store |-> store, storedValue |-> storedValue, published |-> FALSE]
       ELSE [ok |-> TRUE, threw |-> FALSE, newValue |-> newValue.v,
             store |-> set.store,
             storedValue |-> dispatchEvent(set.store,
                               [storedValue EXCEPT ![i] = newValue.v],
                               StorageEvent(key[i])),
             published |-> TRUE]

\* (variant: the updater is applied to the state cell, as useState does)
setValueFromState(i, value, quota) ==
  LET prev == Return(storedValue[i])
      newValue == IF value.fn
                    THEN (IF prev.threw THEN Throw ELSE ApplyUpdater(value.f, prev.v))
                    ELSE Return(value.v)
      text == IF newValue.threw THEN ThrowText ELSE serializer(i, newValue.v)
      set == IF text.threw THEN [threw |-> TRUE, store |-> store]
             ELSE setItem(store, key[i], text, quota)
  IN IF set.threw
       THEN [ok |-> FALSE, threw |-> FALSE, newValue |-> newValue.v,
             store |-> store, storedValue |-> storedValue, published |-> FALSE]
       ELSE [ok |-> TRUE, threw |-> FALSE, newValue |-> newValue.v,
             store |-> set.store,
             storedValue |-> dispatchEvent(set.store,
                               [storedValue EXCEPT ![i] = newValue.v],
                               StorageEvent(key[i])),
             published |-> TRUE]

\* (variant: the custom event is dispatched before the storage step)
setValueDispatchFirst(i, value, quota) ==
  LET prev == readValue(store, i)
      newValue == IF value.fn
                    THEN (IF prev.threw THEN Throw ELSE ApplyUpdater(value.f, prev.v))
                    ELSE Return(value.v)
      text == IF newValue.threw THEN ThrowText ELSE serializer(i, newValue.v)
      notified == dispatchEvent(store, [storedValue EXCEPT ![i] = newValue.v],
                                StorageEvent(key[i]))
      set == IF text.threw THEN [threw |-> TRUE, store |-> store]
             ELSE setItem(store, key[i], text, quota)
  IN IF text.threw
       THEN [ok |-> FALSE, threw |-> FALSE, newValue |-> newValue.v,
             store |-> store, storedValue |-> storedValue, published |-> FALSE]
       ELSE [ok |-> ~set.threw, threw |-> FALSE, newValue |-> newValue.v,
             store |-> set.store, storedValue |-> notified, published |-> TRUE]

\* (variant: the custom event is never dispatched)
setValueNoDispatch(i, value, quota) ==
  LET prev == readValue(store, i)
      newValue == IF value.fn
                    THEN (IF prev.threw THEN Throw ELSE ApplyUpdater(value.f, prev.v))
                    ELSE Return(value.v)
      text == IF newValue.threw THEN ThrowText ELSE serializer(i, newValue.v)
      set == IF text.threw THEN [threw |-> TRUE, store |-> store]
             ELSE setItem(store, key[i], text, quota)
  IN IF set.threw
       THEN [ok |-> FALSE, threw |-> FALSE, newValue |-> newValue.v,
             store |-> store, storedValue |-> storedValue, published |-> FALSE]
       ELSE [ok |-> TRUE, threw |-> FALSE, newValue |-> newValue.v,
             store |-> set.store,
             storedValue |-> [storedValue EXCEPT ![i] = newValue.v],
             published |-> FALSE]

setValue(i, value, quota) ==
  LET prev == readValue(store, i)
      newValue == IF value.fn
                    THEN (IF prev.threw THEN Throw ELSE ApplyUpdater(value.f, prev.v))
                    ELSE Return(value.v)
      text == IF newValue.threw THEN ThrowText ELSE serializer(i, newValue.v)
      set == IF text.threw THEN [threw |-> TRUE, store |-> store]
             ELSE setItem(store, key[i], text, quota)
  IN IF set.threw
       THEN [ok |-> FALSE, threw |-> FALSE, newValue |-> newValue.v,
             store |-> store, storedValue |-> storedValue, published |-> FALSE]
       ELSE [ok |-> TRUE, threw |-> FALSE, newValue |-> newValue.v,
             store |-> set.store,
             storedValue |-> dispatchEvent(set.store,
                               [storedValue EXCEPT ![i] = newValue.v],
                               StorageEvent(key[i])),
             published |-> TRUE]

\* ----------------------------------------------------------------- history
\* The latest operation: which one, on which instance (0: none), whether it
\* ran to its end, whether an exception left it, whether it dispatched the
\* custom event, and whether it repeated the operation before it (a
\* successful write that follows a successful write of the same instance
\* and leaves the storage and the state cells as they were).
Op(op, i, r) ==
  [op |-> op, i |-> i, ok |-> r.ok, threw |-> r.threw, published |-> r.published,
   again |-> /\ op = "write" /\ last.op = "write" /\ last.i = i
             /\ last.ok /\ r.ok
             /\ r.store = store /\ r.storedValue = storedValue]
NoResult ==
  [ok |-> TRUE, threw |-> FALSE, published |-> FALSE, store |-> NoStore,
   storedValue |-> <<>>]
Env(op) == Op(op, 0, NoResult)
NoOp ==
  [op |-> "other", i |-> 0, ok |-> TRUE, threw |-> FALSE, published |-> FALSE,
   again |-> FALSE]

\* ------------------------------------------------------------------ actions
Init ==
  /\ IS_SERVER \in BOOLEAN
  /\ storeMode \in (IF IS_SERVER THEN {"ok"} ELSE {"ok", "denied"})
  /\ keys \in KeyPools
  /\ store = NoStore
  /\ events = <<>>
  /\ \E c \in Configs : options = c.options /\ initialValue = c.initialValue
  /\ key \in [Insts -> keys]
  /\ storedValue = [i \in Insts |-> InitialValueToUse(i)]
  /\ pc = [i \in Insts |-> "rendered"]
  /\ last = NoOp

\* (variant: the effect's dependency list is empty, it runs on mount only)
KeyEffectOnMountOnly(i) ==
  /\ ~IS_SERVER
  /\ pc[i] \in {"rendered", "rekeyed"}
  /\ storedValue' = IF pc[i] = "rendered"
                      THEN [storedValue EXCEPT ![i] = readValue(store, i).v]
                      ELSE storedValue
  /\ pc' = [pc EXCEPT ![i] = "mounted"]
  /\ last' = Op(IF pc[i] = "rendered" THEN "mount" ELSE "rotate", i, NoResult)
  /\ UNCHANGED <<IS_SERVER, storeMode, keys, store, events, options,
                 initialValue, key>>

\* useEffect(() => { setStoredValue(readValue()) }, [key]): after the first
\* commit ("mount") and after every commit that changed the key ("rotate").
KeyEffect(i) ==
  /\ ~IS_SERVER
  /\ pc[i] \in {"rendered", "rekeyed"}
  /\ storedValue' = [storedValue EXCEPT ![i] = readValue(store, i).v]
  /\ pc' = [pc EXCEPT ![i] = "mounted"]
  /\ last' = Op(IF pc[i] = "rendered" THEN "mount" ELSE "rotate", i, NoResult)
  /\ UNCHANGED <<IS_SERVER, storeMode, keys, store, events, options,
                 initialValue, key>>

\* The component renders the hook again with another key.
ChangeKey(i, k) ==
  /\ pc[i] = "mounted"
  /\ k # key[i]
  /\ key' = [key EXCEPT ![i] = k]
  /\ pc' = [pc EXCEPT ![i] = "rekeyed"]
  /\ last' = Env("other")
  /\ UNCHANGED <<IS_SERVER, storeMode, keys, store, events, options,
                 initialValue, storedValue>>

\* A caller invokes the setter the hook returned.
Write(i, value, quota) ==
  LET r == setValue(i, value, quota) IN
  /\ quota => value \in QuotaArgs
  /\ store' = r.store
  /\ storedValue' = r.storedValue
  /\ last' = Op("write", i, r)
  /\ UNCHANGED <<IS_SERVER, storeMode, keys, events, options,
                 initialValue, key, pc>>

\* Another document sharing the storage area sets an entry or clears the
\* area; the browser queues a 'storage' event for this window.
ExternalSet(k, text) ==
  /\ ~IS_SERVER
  /\ Len(events) < MaxEvents
  /\ store' = [x \in DOMAIN store \cup {k} |-> IF x = k THEN text ELSE store[x]]
  /\ events' = Append(events, StorageEvent(k))
  /\ last' = Env("other")
  /\ UNCHANGED <<IS_SERVER, storeMode, keys, options, initialValue,
                 key, storedValue, pc>>

ExternalClear ==
  /\ ~IS_SERVER
  /\ Len(events) < MaxEvents
  /\ store' = NoStore
  /\ events' = Append(events, NullKeyEvent)
  /\ last' = Env("other")
  /\ UNCHANGED <<IS_SERVER, storeMode, keys, options, initialValue,
                 key, storedValue, pc>>

\* The browser delivers the oldest queued 'storage' event to the window.
DeliverStorage ==
  /\ events # <<>>
  /\ storedValue' = dispatchEvent(store, storedValue, Head(events))
  /\ events' = Tail(events)
  /\ last' = Env("deliver")
  /\ UNCHANGED <<IS_SERVER, storeMode, keys, store, options,
                 initialValue, key, pc>>

Next ==
  \/ \E i \in Insts : KeyEffect(i)
  \/ \E i \in Insts, k \in keys : ChangeKey(i, k)
  \/ \E i \in Insts, value \in WriteArgs, quota \in BOOLEAN : Write(i, value, quota)
  \/ \E k \in ExternalKeys, text \in ExternalTexts : ExternalSet(k, text)
  \/ ExternalClear
  \/ DeliverStorage

Spec == Init /\ [][Next]_vars

\* The same window when one of the keys the application passes is the
\* empty string (a valid sessionStorage key).
EmptyKeyPools == {{"", "a"}}
InitEmptyKey ==
  /\ IS_SERVER \in BOOLEAN
  /\ storeMode \in (IF IS_SERVER THEN {"ok"} ELSE {"ok", "denied"})
  /\ keys \in EmptyKeyPools
  /\ store = NoStore
  /\ events = <<>>
  /\ \E c \in Configs : options = c.options /\ initialValue = c.initialValue
  /\ key \in [Insts -> keys]
  /\ storedValue = [i \in Insts |-> InitialValueToUse(i)]
  /\ pc = [i \in Insts |-> "rendered"]
  /\ last = NoOp

SpecEmptyKey == InitEmptyKey /\ [][Next]_vars

\* ------------------------------------------------------------------ claims
LiteralArgs == {value \in WriteArgs : ~value.fn}
Present(k) == k \in DOMAIN store

\* C1: round trip.  When write(v) on an instance succeeds, the read() that
\* immediately follows on that key returns v; with the default codec this
\* is claimed for every value, Map-typed and Set-typed ones included.
C1_RoundTrip ==
  [][\A i \in Insts, value \in LiteralArgs :
       (options[i] = "default" /\ Write(i, value, FALSE) /\ last'.ok)
         => readValue(store', i) = Return(value.v)]_vars

\* C2: cross-instance sync.  For two instances A and B on the same key,
\* once A's successful write(v) has notified B, B's cached value equals v.
C2_CrossInstanceSync ==
  [][\A a \in Insts, b \in Insts, value \in LiteralArgs :
       (/\ a # b /\ key[a] = key[b] /\ Listening(b)
        /\ options[a] = "default" /\ options[b] = "default"
        /\ Write(a, value, FALSE) /\ last'.ok)
         => storedValue'[b] = value.v]_vars

\* C3: a failed write is atomic.  While the store is available, a write()
\* in which the updater, the encoder or the storage step throws leaves every
\* cached value and the store as they were and publishes nothing.
C3_FailedWriteAtomic ==
  [][(~IS_SERVER /\ last'.op = "write" /\ ~last'.ok)
       => (store' = store /\ storedValue' = storedValue /\ ~last'.published)]_vars

C3_Witness ==
  /\ ~IS_SERVER /\ storeMode = "ok"
  /\ last.op = "write" /\ ~last.ok
  /\ Present(key[last.i])
  /\ storedValue[last.i] # InitialValueToUse(last.i)

\* C4 as claimed: without a Backing Store, write(v) still sets the writer's
\* cached value to v and still publishes a notification.
C4_DegradedWritePublishes ==
  [][\A i \in Insts, value \in LiteralArgs :
       (IS_SERVER /\ Write(i, value, FALSE))
         => (storedValue'[i] = value.v /\ last'.published)]_vars

\* C4 as amended: without a Backing Store, write(v) fails at the storage
\* step; the failure is caught, every cached value is left as it was and no
\* notification is published.
C4_DegradedWriteAborts ==
  [][(IS_SERVER /\ last'.op = "write")
       => (/\ ~last'.ok /\ ~last'.threw /\ ~last'.published
           /\ storedValue' = storedValue /\ store' = store)]_vars

C4_Witness == IS_SERVER /\ last.op = "write" /\ last.i = 1

\* C5: degraded mode is safe.  Without a Backing Store no write() throws,
\* and read() returns the current evaluation of initialValue before,
\* between and after the writes.
C5_DegradedModeSafe ==
  IS_SERVER =>
    /\ \A i \in Insts : readValue(store, i) = Return(InitialValueToUse(i))
    /\ (last.op = "write" => ~last.threw)

C5_Witness == IS_SERVER /\ last.op = "write" /\ last.i = 2

\* C6: decode fallback.  When the entry of an instance's key holds text its
\* decoder cannot decode (JSON.parse fails, or the custom deserializer
\* throws), read() returns the evaluation of initialValue and raises nothing.
Undecodable(i, text) ==
  IF options[i] = "custom" THEN CustomDeserializer(text).threw
  ELSE text # "undefined" /\ JSONparse(text).threw

C6_DecodeFallback ==
  \A i \in Insts :
    (~IS_SERVER /\ storeMode = "ok" /\ Present(key[i])
       /\ Undecodable(i, store[key[i]]))
      => readValue(store, i) = Return(InitialValueToUse(i))

C6_Witness ==
  \E i \in Insts :
    /\ storeMode = "ok" /\ Listening(i) /\ Present(key[i])
    /\ store[key[i]] = "{bad"
    /\ options[i] = "default"
    /\ last.op = "deliver"
    /\ storedValue[i] = InitialValueToUse(i)

\* C7: key rotation and construction.  After the effect that follows the
\* first commit, and after the one that follows a change of key, the cached
\* value is read() against the key the instance is now bound to.
C7_KeyRotation ==
  last.op \in {"mount", "rotate"} =>
    /\ pc[last.i] = "mounted"
    /\ storedValue[last.i] = readValue(store, last.i).v

C7_Witness ==
  /\ last.op = "rotate"
  /\ \A k \in keys : Present(k)
  /\ \E k \in keys : k # key[last.i] /\ store[k] # store[key[last.i]]
                      /\ ~Undecodable(last.i, store[k])
  /\ storedValue[last.i] # InitialValueToUse(last.i)

\* C8: "undefined" round trip.  With the default codec a successful
\* write(undefined) stores the text "undefined" under the key, and the
\* read() that follows returns undefined.
C8_UndefinedRoundTrip ==
  [][\A i \in Insts :
       (/\ last'.op = "write" /\ last'.i = i /\ last'.ok
        /\ options[i] = "default"
        /\ Write(i, Literal(Undefined), FALSE))
         => (/\ key[i] \in DOMAIN store'
             /\ store'[key[i]] = "undefined"
             /\ readValue(store', i) = Return(Undefined))]_vars

C8_Witness ==
  /\ last.op = "write" /\ last.ok
  /\ options[last.i] = "default"
  /\ Present(key[last.i]) /\ store[key[last.i]] = "undefined"
  /\ Listening(last.i) /\ storedValue[last.i] = Undefined
  /\ InitialValueToUse(last.i) # Undefined

\* C9: idempotent write.  A successful write(v) issued right after a
\* successful write(v) on the same key leaves read() equal to v and the
\* stored text as it was, and publishes a notification of its own.
C9_IdempotentWrite ==
  [][\A i \in Insts, value \in LiteralArgs :
       (/\ options[i] = "default"
        /\ last.op = "write" /\ last.i = i /\ last.ok
        /\ Present(key[i]) /\ ~serializer(i, value.v).threw
        /\ store[key[i]] = (IF serializer(i, value.v).undef THEN "undefined"
                            ELSE serializer(i, value.v).s)
        /\ Write(i, value, FALSE) /\ last'.ok)
         => (/\ readValue(store', i) = Return(value.v)
             /\ store' = store
             /\ last'.published)]_vars

\* C10: nothing is surfaced to the caller.  In every store state read()
\* completes and returns a decoded value or the evaluation of initialValue,
\* and no write(), literal or updater, lets an exception out.
C10_NeverThrows ==
  /\ \A i \in Insts :
       LET r == readValue(store, i) IN
       /\ ~r.threw
       /\ \/ r.v = InitialValueToUse(i)
          \/ /\ Present(key[i])
             /\ ~deserializer(i, store[key[i]]).threw
             /\ r.v = deserializer(i, store[key[i]]).v
  /\ (last.op = "write" => ~last.threw)

C10_Witness ==
  /\ storeMode = "denied" /\ last.op = "write" /\ ~last.ok
  /\ \E i \in Insts : Present(key[i]) /\ Listening(i)

\* What the claims call decode(BackingStore.get(Key)) when the key is
\* present and decodable, and the evaluation of initialValue otherwise.
Decodes(i) ==
  /\ ~IS_SERVER /\ storeMode = "ok" /\ Present(key[i])
  /\ store[key[i]] # ""
  /\ ~deserializer(i, store[key[i]]).threw
DecodedOrInitial(i) ==
  IF Decodes(i) THEN deserializer(i, store[key[i]]).v ELSE InitialValueToUse(i)

C12_WriteBeforeNotify ==
  (last.op = "write" /\ last.published) =>
    /\ last.ok
    /\ Present(key[last.i])
    /\ \A j \in Insts :
         (Listening(j) /\ key[j] = key[last.i])
           => storedValue[j] = DecodedOrInitial(j)

C12_Witness ==
  /\ last.op = "write" /\ last.published /\ last.ok
  /\ \E j \in Insts :
       /\ j # last.i /\ Listening(j) /\ key[j] = key[last.i]
       /\ Decodes(j)
       /\ storedValue[j] = deserializer(j, store[key[j]]).v
       /\ storedValue[j] # InitialValueToUse(j)

\* C13: notification key filter.  A handler that receives an event whose key
\* differs from its instance's key, on the custom channel (a write by another
\* instance) or on the native one, leaves the state cell as it was; an event
\* with the instance's own key makes the state cell the result of readValue.
C13_KeyFilter ==
  [][/\ (last'.op = "write" /\ last'.published)
          => \A j \in Insts :
               Listening(j)
                 => IF key[j] # key[last'.i]
                      THEN storedValue'[j] = storedValue[j]
                      ELSE storedValue'[j] = readValue(store', j).v
     /\ (last'.op = "deliver" /\ ~Head(events).isNull)
          => \A j \in Insts :
               Listening(j)
                 => IF key[j] # Head(events).key
                      THEN storedValue'[j] = storedValue[j]
                      ELSE storedValue'[j] = readValue(store', j).v]_vars

\* The text setItem leaves in the storage for what the serializer yields.
StoredText(text) == IF text.undef THEN "undefined" ELSE text.s

\* C14: last write wins.  When two mounted instances on one key (default
\* codec) each make a successful literal write, v1 then v2, with nothing in
\* between, the entry ends as the serialized v2 and, the events delivered,
\* both state cells equal v2.
C14_LastWriteWins ==
  [][\A j \in Insts, value \in LiteralArgs :
       (/\ last.op = "write" /\ last.ok /\ last.i # j
        /\ last'.op = "write" /\ last'.ok /\ last'.i = j
        /\ key[last.i] = key[j]
        /\ Listening(last.i) /\ Listening(j)
        /\ options[last.i] = "default" /\ options[j] = "default"
        /\ Write(j, value, FALSE))
         => (/\ store'[key[j]] = StoredText(serializer(j, value.v))
             /\ storedValue'[j] = value.v
             /\ storedValue'[last.i] = value.v)]_vars

\* C15: updater resolution.  In every reachable state, a write with an
\* updater f that succeeds stores the serialized f(v), v being what the
\* storage decodes to under the writer's key at that moment (the initial
\* value when it does not decode), whatever the writer's state cell holds.
C15_UpdaterResolution ==
  \A i \in Insts, f \in Updaters :
    LET r == setValue(i, Updater(f), FALSE) IN
    r.ok =>
      /\ key[i] \in DOMAIN r.store
      /\ r.store[key[i]] =
           StoredText(serializer(i, ApplyUpdater(f, DecodedOrInitial(i)).v))

\* An instance whose state cell is stale (another instance wrote the key
\* before this one's effect ran, or a 'storage' event is still queued), on
\* which the updater gives another result for the state cell than for the
\* storage, and whose write goes through.
C15_Witness ==
  \E i \in Insts :
    /\ Decodes(i)
    /\ storedValue[i] # DecodedOrInitial(i)
    /\ ApplyUpdater("toggle", storedValue[i])
         # ApplyUpdater("toggle", DecodedOrInitial(i))
    /\ setValue(i, Updater("toggle"), FALSE).ok
    /\ last.op = "write" /\ last.ok /\ last.i # i /\ key[last.i] = key[i]

\* C16 as claimed: "undefined" bypasses the decoder.  Whenever the entry of
\* an instance's key is the text "undefined", readValue returns undefined,
\* with the default decoder and with a custom deserializer alike.
C16_UndefinedBypassesDecoder ==
  \A i \in Insts :
    (~IS_SERVER /\ storeMode = "ok" /\ Present(key[i])
       /\ store[key[i]] = "undefined")
      => readValue(store, i) = Return(Undefined)

\* C16 as amended: with the default decoder readValue returns undefined for
\* the text "undefined" (JSON.parse, which rejects it, is not consulted);
\* a custom deserializer is handed the text "undefined" like any other, and
\* readValue returns what it returns, or the initial value when it throws.
C16_UndefinedBypassesDefaultDecoder ==
  \A i \in Insts :
    (~IS_SERVER /\ storeMode = "ok" /\ Present(key[i])
       /\ store[key[i]] = "undefined")
      => readValue(store, i) =
           IF options[i] = "default" THEN Return(Undefined)
           ELSE IF CustomDeserializer("undefined").threw
                  THEN Return(InitialValueToUse(i))
                  ELSE CustomDeserializer("undefined")

C16_Witness ==
  \E i \in Insts, j \in Insts :
    /\ storeMode = "ok" /\ key[i] = key[j]
    /\ Present(key[i]) /\ store[key[i]] = "undefined"
    /\ options[i] = "default" /\ options[j] = "custom"
    /\ pc[i] = "mounted" /\ pc[j] = "mounted"
    /\ storedValue[i] = Undefined
    /\ storedValue[j] = InitialValueToUse(j)
    /\ InitialValueToUse(i) # Undefined

\* C17: key isolation.  A write on an instance bound to k1 leaves the entry
\* of every other key k2 as it was (present or absent, and its text), and,
\* its event delivered, the state cell of every instance bound to another
\* key is what it was before the write.
C17_KeyIsolation ==
  [][last'.op = "write"
       => (/\ \A k \in keys \ {key[last'.i]} :
                /\ (k \in DOMAIN store') = (k \in DOMAIN store)
                /\ k \in DOMAIN store => store'[k] = store[k]
           /\ \A j \in Insts :
                key[j] # key[last'.i] => storedValue'[j] = storedValue[j])]_vars

\* C18: an empty raw string is an absent entry.  When the entry of an
\* instance's key is the empty string, readValue returns the evaluation of
\* initialValue (the deserializer, which may well decode "", is not asked);
\* so a successful literal write whose serializer yields "" is followed by
\* a readValue that returns the initial value, not the value written.
C18_EmptyTextIsAbsent ==
  \A i \in Insts :
    /\ (~IS_SERVER /\ storeMode = "ok" /\ Present(key[i]) /\ store[key[i]] = "")
         => readValue(store, i) = Return(InitialValueToUse(i))
    /\ \A value \in LiteralArgs :
         LET r == setValue(i, value, FALSE) IN
         (r.ok /\ serializer(i, value.v) = Text(""))
           => /\ key[i] \in DOMAIN r.store /\ r.store[key[i]] = ""
              /\ readValue(r.store, i) = Return(InitialValueToUse(i))
              /\ Listening(i) => r.storedValue[i] = InitialValueToUse(i)

C18_Witness ==
  /\ last.op = "write" /\ last.ok
  /\ options[last.i] = "custom" /\ pc[last.i] = "mounted"
  /\ Present(key[last.i]) /\ store[key[last.i]] = ""
  /\ CustomDeserializer("") = Return(Undefined)
  /\ storedValue[last.i] = InitialValueToUse(last.i)
  /\ InitialValueToUse(last.i) # Undefined

\* C19: an event without a key, or with the empty key, is never filtered.
\* When the 'storage' event about to be delivered has no key (the storage
\* was cleared) or the empty key, its delivery leaves every listening
\* instance, whatever its key, with the result of readValue (the initial
\* value when the storage is still empty); and right after a write by an
\* instance bound to the empty key every listening instance, whatever its
\* key, holds the result of readValue.
C19_KeylessNotFiltered ==
  /\ (events # <<>> /\ (Head(events).isNull \/ Head(events).key = ""))
       => \A j \in Insts :
            Listening(j) =>
              /\ dispatchEvent(store, storedValue, Head(events))[j]
                   = DecodedOrInitial(j)
              /\ store = NoStore =>
                   dispatchEvent(store, storedValue, Head(events))[j]
                     = InitialValueToUse(j)
  /\ (last.op = "write" /\ last.published /\ key[last.i] = "")
       => \A j \in Insts : Listening(j) => storedValue[j] = DecodedOrInitial(j)

\* An instance bound to the empty key has just written while a 'storage'
\* event for "a" was queued: the mounted instance bound to "a" holds what
\* the entry of "a" (which it has not been notified of) now decodes to.
C19_Witness ==
  /\ last.op = "write" /\ last.published /\ key[last.i] = ""
  /\ \E j \in Insts :
       /\ key[j] = "a" /\ pc[j] = "mounted"
       /\ events # <<>> /\ ~Head(events).isNull /\ Head(events).key = "a"
       /\ Present("a") /\ store["a"] = "{bad"
       /\ storedValue[j] = InitialValueToUse(j)

====
